---- MODULE Spec2Model ----
(***************************************************************************)
(* Model of src/src/lib/token-liquidity.js: the transaction reconciler     *)
(* (compareLastTransaction), the detection step (detectNewTxs), the        *)
(* single-transaction processor (processTx) and the bonding-curve pricing  *)
(* functions (exchangeBCHForTokens, exchangeTokensForBCH).                 *)
(*                                                                         *)
(* Quantities.  A JavaScript number is modelled as a record [k, v]: a      *)
(* finite value counted in units of 10^-9 coin (or token), or one of NaN,  *)
(* +Infinity, -Infinity.  One satoshi (10^-8) is 10 units, so a value with *)
(* more than 8 fractional digits is one whose unit count is no multiple of *)
(* 10.  Logarithms and exponentials are computed in fixed point with       *)
(* LnScale steps per unit.                                                 *)
(***************************************************************************)
EXTENDS Integers, Sequences, FiniteSets, TLC

\* ------------------------------------------------------------------------
\* Program constants
\* ------------------------------------------------------------------------

\* Units per satoshi: the model's resolution is one tenth of the 8th digit.
UnitsPerSat == 10

\* The 270 satoshi transaction fee, "0.0000027", in units.
FEE == 2700

\* config.BCH_QTY_ORIGINAL and config.TOKENS_QTY_ORIGINAL, in units.  The
\* configuration file is not among the sources; the curve is calibrated
\* here at 0.0001 coin and 0.0002 token, which keeps every intermediate
\* product of the fixed-point arithmetic within 32 bits.
BCH_QTY_ORIGINAL == 100000

TOKENS_QTY_ORIGINAL == 200000

\* Fixed-point scale of logarithms and exponents, and ln(2) at that scale.
LnScale == 10000

LN2 == 6931

\* ------------------------------------------------------------------------
\* JavaScript numbers
\* ------------------------------------------------------------------------

Fin(n) == [k |-> "fin", v |-> n]

NaN == [k |-> "nan", v |-> 0]

PosInf == [k |-> "inf", v |-> 1]

NegInf == [k |-> "inf", v |-> -1]

IsFin(x) == x.k = "fin"

IsNaN(x) == x.k = "nan"

Neg(x) == IF IsNaN(x) THEN NaN ELSE [k |-> x.k, v |-> -x.v]

\* a + b
NumAdd(a, b) ==
  IF IsNaN(a) \/ IsNaN(b) THEN NaN
  ELSE IF IsFin(a) /\ IsFin(b) THEN Fin(a.v + b.v)
  ELSE IF IsFin(a) THEN b
  ELSE IF IsFin(b) THEN a
  ELSE IF a.v = b.v THEN a
  ELSE NaN

\* a - b
NumSub(a, b) == NumAdd(a, Neg(b))

\* a < b and a > b: every comparison with NaN is false.
NumLt(a, b) ==
  IF IsNaN(a) \/ IsNaN(b) THEN FALSE
  ELSE IF IsFin(a) /\ IsFin(b) THEN a.v < b.v
  ELSE IF IsFin(a) THEN b.v > 0
  ELSE IF IsFin(b) THEN a.v < 0
  ELSE a.v < b.v

NumGt(a, b) == NumLt(b, a)

\* Math.abs
MathAbs(x) ==
  IF IsNaN(x) THEN NaN
  ELSE IF IsFin(x) THEN Fin(IF x.v < 0 THEN -x.v ELSE x.v)
  ELSE PosInf

\* tlUtil.round8: the nearest multiple of 10^-8, a half rounding up
\* (Math.round); NaN and the infinities are kept.
round8(x) ==
  IF IsFin(x) THEN Fin(((x.v + 5) \div UnitsPerSat) * UnitsPerSat) ELSE x

\* Whether a number has at most 8 fractional decimal digits.
Has8Digits(x) == IsFin(x) /\ x.v % UnitsPerSat = 0

\* floor(a * b / c) for naturals a, b and 0 < c < 46340, without an
\* intermediate product beyond 32 bits.
MulDiv(a, b, c) ==
  LET q == a \div c
      r == a % c
  IN q * b + r * (b \div c) + (r * (b % c)) \div c

\* The largest power of two that is at most x, for x >= 1.
RECURSIVE Pow2Floor(_, _)
Pow2Floor(x, p) == IF 2 * p > x THEN p ELSE Pow2Floor(x, 2 * p)

RECURSIVE Log2Of(_)
Log2Of(p) == IF p <= 1 THEN 0 ELSE 1 + Log2Of(p \div 2)

\* ln(x) * LnScale for an integer x >= 1: x = 2^k * m with 1 <= m < 2,
\* ln(m) = 2 * atanh((m - 1) / (m + 1)) by its series.
LnInt(x) ==
  LET p  == Pow2Floor(x, 1)
      z  == ((x - p) * LnScale) \div (x + p)
      z2 == (z * z) \div LnScale
      z3 == (z * z2) \div LnScale
      z5 == (z3 * z2) \div LnScale
      z7 == (z5 * z2) \div LnScale
  IN Log2Of(p) * LN2 + 2 * (z + z3 \div 3 + z5 \div 5 + z7 \div 7)

\* Math.log(a / b) for finite a and b, as a number in LnScale steps.
MathLogRatio(a, b) ==
  IF b = 0
  THEN IF a > 0 THEN PosInf ELSE NaN
  ELSE IF a = 0 THEN NegInf
  ELSE IF (a < 0) # (b < 0) THEN NaN
  ELSE LET aa == IF a < 0 THEN -a ELSE a
           bb == IF b < 0 THEN -b ELSE b
       IN Fin(LnInt(aa) - LnInt(bb))

\* k * x / LnScale for an integer k and a number x in LnScale steps.
ScaleBy(k, x) ==
  IF IsNaN(x) THEN NaN
  ELSE IF IsFin(x)
  THEN Fin(IF (k < 0) # (x.v < 0)
           THEN -MulDiv(IF k < 0 THEN -k ELSE k,
                        IF x.v < 0 THEN -x.v ELSE x.v, LnScale)
           ELSE MulDiv(IF k < 0 THEN -k ELSE k,
                       IF x.v < 0 THEN -x.v ELSE x.v, LnScale))
  ELSE IF k = 0 THEN NaN
  ELSE IF (k < 0) # (x.v < 0) THEN NegInf ELSE PosInf

\* Math.pow(Math.E, x) * LnScale for a number x in LnScale steps:
\* x = k * ln 2 + r with 0 <= r < ln 2, e^r by its series, then 2^k.
RECURSIVE Pow2(_)
Pow2(k) == IF k <= 0 THEN 1 ELSE 2 * Pow2(k - 1)

ExpInt(x) ==
  LET k  == x \div LN2
      r  == x - k * LN2
      t1 == r
      t2 == (t1 * r) \div (2 * LnScale)
      t3 == (t2 * r) \div (3 * LnScale)
      t4 == (t3 * r) \div (4 * LnScale)
      t5 == (t4 * r) \div (5 * LnScale)
      t6 == (t5 * r) \div (6 * LnScale)
      er == LnScale + t1 + t2 + t3 + t4 + t5 + t6
  IN IF k >= 0 THEN er * Pow2(k) ELSE er \div Pow2(-k)

MathExp(x) ==
  IF IsNaN(x) THEN NaN
  ELSE IF IsFin(x) THEN Fin(ExpInt(x.v))
  ELSE IF x.v > 0 THEN PosInf ELSE Fin(0)

\* (a / b) for integers a and b, as a number in LnScale steps.
Ratio(a, b) ==
  IF b = 0
  THEN IF a = 0 THEN NaN ELSE IF a > 0 THEN PosInf ELSE NegInf
  ELSE LET aa == IF a < 0 THEN -a ELSE a
           bb == IF b < 0 THEN -b ELSE b
           m  == (aa * LnScale) \div bb
       IN Fin(IF (a < 0) # (b < 0) THEN -m ELSE m)

\* Math.floor(x * 100000000): a quantity in whole satoshis.
FloorSats(x) == IF IsFin(x) THEN Fin(x.v \div UnitsPerSat) ELSE x

\* ------------------------------------------------------------------------
\* The pricing functions
\* ------------------------------------------------------------------------

\* exchangeBCHForTokens({bchIn, bchBalance, bchOriginalBalance,
\* tokenOriginalBalance}): the quote {tokensOut, bch2, token2}.  The function
\* has no check of its arguments and no statement that throws: it returns a
\* quote for every input.
exchangeBCHForTokens(bchIn, bchBalance, bchOriginalBalance, tokenOriginalBalance) ==
  LET bch1   == bchBalance
      bch2   == bch1 - bchIn - FEE
      token1 == ScaleBy(-tokenOriginalBalance, MathLogRatio(bch1, bchOriginalBalance))
      token2 == ScaleBy(-tokenOriginalBalance, MathLogRatio(bch2, bchOriginalBalance))
      tokensOut == NumSub(token2, token1)
  IN [threw |-> FALSE,
      tokensOut |-> MathAbs(round8(tokensOut)),
      bch2 |-> Fin(bch2),
      token2 |-> token2]

\* exchangeTokensForBCH({tokenIn, tokenBalance, bchOriginalBalance,
\* tokenOriginalBalance}): the quantity of coin to send.
exchangeTokensForBCH(tokenIn, tokenBalance, bchOriginalBalance, tokenOriginalBalance) ==
  LET token1 == tokenBalance - tokenOriginalBalance
      token2 == token1 + tokenIn
      bch1   == ScaleBy(bchOriginalBalance, MathExp(Ratio(-token1, tokenOriginalBalance)))
      bch2   == ScaleBy(bchOriginalBalance, MathExp(Ratio(-token2, tokenOriginalBalance)))
      bchOut == NumSub(NumSub(bch2, bch1), Fin(FEE))
  IN MathAbs(round8(bchOut))

\* ------------------------------------------------------------------------
\* Bounds of the model
\* ------------------------------------------------------------------------

\* Transaction ids are 1..NumTx; NoTx is a last-known id outside the list.
NumTx == 2

\* The number of compareLastTransaction invocations in one run.
MaxInvocations == 2

TxIds == 1..NumTx

NoTx == 0

\* The instances of compareLastTransaction that may be in flight.
Procs == {1, 2}

\* The 1-conf lists the transaction query service returns: the sequences
\* without repetition over TxIds.
TxLists ==
  UNION {{l \in [1..n -> TxIds] : \A i, j \in 1..n : i # j => l[i] # l[j]} :
         n \in 0..NumTx}

\* Addresses: config.BCH_ADDR (the pool), config.SLP_ADDR (its token
\* custody, the 245 derivation path) and a user's address.
BCH_ADDR == "pool"

SLP_ADDR == "slp"

USER_ADDR == "user"

\* The {bchBalance, tokenBalance} a caller passes, in units: the original
\* balances, an empty coin reserve, and balances with a ninth fractional
\* digit.
CallerBalances == {<<100000, 200000>>, <<0, 200000>>, <<100003, 200007>>}

\* Quantities the collaborators report: slp.tokenTxInfo gives false (0 here)
\* or a token quantity, bch.recievedBch a coin quantity.
TokenQtys == {0, 40000}

BchQtys == {0, 50000}

\* Live balances bch.getBCHBalance and slp.getTokenBalance report.
LiveBch == {100000, 150004}

LiveTokens == {200000, 160009}

\* err.code of a rejected collaborator call.
ErrCodes == {"ENETUNREACH", "ETIMEDOUT", "EOTHER"}

\* ------------------------------------------------------------------------
\* State
\* ------------------------------------------------------------------------

VARIABLES
  seenTxs,      \* the module's array of processed TXIDs
  pc,           \* per instance: the await it is suspended at
  args,         \* per instance: obj = {bchAddr, txid, bchBalance, tokenBalance}
  loc,          \* per instance: the local variables
  result,       \* per instance: what the invocation gave its caller
  issued,       \* per instance: the collaborator calls it has made, in order
  caught,       \* per instance: the error its catch block handled
  seenAtStart,  \* per instance: seenTxs as it was when the invocation began
  paid,         \* per txid: the invocations that broadcast a payment for it
  nInv,         \* invocations begun so far
  det,          \* the detectNewTxs call in progress
  ptx,          \* the processTx call in progress
  caller        \* the polling caller: its 1-conf list and last-known txid

vars == <<seenTxs, pc, args, loc, result, issued, caught, seenAtStart, paid,
          nInv, det, ptx, caller>>

Range(s) == {s[i] : i \in 1..Len(s)}

NoResult == [kind |-> "none", lastTransaction |-> NoTx,
             bchBalance |-> Fin(0), tokenBalance |-> Fin(0)]

\* The function left without line 402: it falls off its end and the caller
\* gets undefined.
FallOffEnd == [NoResult EXCEPT !.kind = "undefined"]

\* `return false`
ReturnFalse == [NoResult EXCEPT !.kind = "false"]

\* `return` with no value, and falling off the end of the function.
ReturnUndefined == [NoResult EXCEPT !.kind = "undefined"]

\* A rejected promise: the error reaches the caller.
Thrown == [NoResult EXCEPT !.kind = "thrown"]

Balances(id, b, t) == [kind |-> "balances", lastTransaction |-> id,
                       bchBalance |-> b, tokenBalance |-> t]

NoArgs == [bchAddr |-> BCH_ADDR, txid |-> NoTx,
           bchBalance |-> Fin(0), tokenBalance |-> Fin(0)]

NoLoc == [lastTransactions |-> <<>>, lastTransaction |-> NoTx,
          userAddr |-> "none", isTokenTx |-> 0, dir |-> "none",
          out |-> Fin(0), newBchBalance |-> Fin(0), newTokenBalance |-> Fin(0),
          liveBch |-> Fin(0), liveToken |-> Fin(0),
          isOnly2Conf |-> FALSE, bchQty |-> 0, seenAtScan |-> <<>>]

NoCaught == [code |-> "none", at |-> "none", logged |-> FALSE]

Call(fn, tx, to, amt) == [fn |-> fn, tx |-> tx, to |-> to, amt |-> amt]

\* No polling caller: the invocations take any txid.
NoCaller == [list |-> <<>>, seen0 |-> <<>>, txid0 |-> NoTx, txid |-> NoTx]

\* detectNewTxs before its first call.
NoDet == [pc |-> "idle", seenTxs |-> <<>>, txids |-> <<>>, diffTxs |-> <<>>,
          confs |-> <<>>, kind |-> "none", newTxs |-> <<>>]

\* processTx before its first call.
NoPtx == [pc |-> "idle", txid |-> NoTx, bchBalance |-> Fin(0),
          tokenBalance |-> Fin(0), userAddr |-> "none", isTokenTx |-> 0,
          dir |-> "none", out |-> Fin(0), newBchBalance |-> Fin(0),
          newTokenBalance |-> Fin(0), result |-> NoResult, issued |-> <<>>]

Init ==
  /\ seenTxs = <<>>
  /\ pc = [p \in Procs |-> "idle"]
  /\ args = [p \in Procs |-> NoArgs]
  /\ loc = [p \in Procs |-> NoLoc]
  /\ result = [p \in Procs |-> NoResult]
  /\ issued = [p \in Procs |-> <<>>]
  /\ caught = [p \in Procs |-> NoCaught]
  /\ seenAtStart = [p \in Procs |-> <<>>]
  /\ paid = [x \in TxIds |-> 0]
  /\ nInv = 0
  /\ det = NoDet
  /\ ptx = NoPtx
  /\ caller = NoCaller

Running(p) == pc[p] \notin {"idle", "done"}

\* ------------------------------------------------------------------------
\* compareLastTransaction
\* ------------------------------------------------------------------------

\* The awaits of compareLastTransaction, named by the call awaited.
Awaits == {"getLastConfirmedTransactions", "only2Conf", "getBCHBalance",
           "getTokenBalance", "getUserAddr", "tokenTxInfo", "createBchTx",
           "broadcastBchTx", "createTokenTx", "broadcastTokenTx",
           "recievedBch"}

\* The calls that build or broadcast an outbound transaction.
SettlementCalls == {"createBchTx", "broadcastBchTx", "createTokenTx",
                    "broadcastTokenTx"}

\* The call instance p is awaiting, with its arguments.
\* The token transfer built with the sender as recipient and the quote as
\* quantity in both directions.
CallAtToSender(p) ==
  LET l  == loc[p]
      fn == pc[p]
  IN IF fn \in {"createBchTx", "broadcastBchTx"}
     THEN Call(fn, l.lastTransaction, l.userAddr, FloorSats(l.out))
     ELSE IF fn \in {"createTokenTx", "broadcastTokenTx"}
     THEN Call(fn, l.lastTransaction, l.userAddr, l.out)
     ELSE Call(fn, l.lastTransaction, "none", Fin(0))

CallAt(p) ==
  LET l  == loc[p]
      fn == pc[p]
  IN IF fn \in {"createBchTx", "broadcastBchTx"}
     THEN Call(fn, l.lastTransaction, l.userAddr, FloorSats(l.out))
     ELSE IF fn \in {"createTokenTx", "broadcastTokenTx"}
     THEN IF l.dir = "token"
          THEN Call(fn, l.lastTransaction, SLP_ADDR, Fin(l.isTokenTx))
          ELSE Call(fn, l.lastTransaction, l.userAddr, l.out)
     ELSE Call(fn, l.lastTransaction, "none", Fin(0))

\* A loop that leaves out the seenTxs check of line 263.
RECURSIVE FirstNewIgnoringSeen(_, _, _, _)
FirstNewIgnoringSeen(lastTransactions, i, txid, seen) ==
  IF i > Len(lastTransactions) THEN 0
  ELSE IF lastTransactions[i] # txid
       THEN i
       ELSE FirstNewIgnoringSeen(lastTransactions, i + 1, txid, seen)

\* The loop of lines 259-266: the index of the first entry of the 1-conf
\* list that differs from txid and is not in seen, or 0 when there is none.
\* The loop without its early exit: the last qualifying entry, not the
\* first, is the one left in lastTransaction.
FirstNewLast(lastTransactions, i, txid, seen) ==
  LET S == {k \in i..Len(lastTransactions) :
              /\ lastTransactions[k] # txid
              /\ lastTransactions[k] \notin Range(seen)}
  IN IF S = {} THEN 0 ELSE CHOOSE k \in S : \A m \in S : m <= k

RECURSIVE FirstNew(_, _, _, _)
FirstNew(lastTransactions, i, txid, seen) ==
  IF i > Len(lastTransactions) THEN 0
  ELSE IF lastTransactions[i] # txid /\ lastTransactions[i] \notin Range(seen)
       THEN i
       ELSE FirstNew(lastTransactions, i + 1, txid, seen)

\* A catch block that re-throws every error, network errors included.
compareLastTransactionCatchRethrow(code) ==
  [result |-> Thrown, logged |-> TRUE]

\* The catch block of compareLastTransaction: what the invocation gives its
\* caller and whether the error is logged.  A network error returns with no
\* value; any other error is logged and, the throw being commented out, the
\* function ends without a value as well.
compareLastTransactionCatch(code) ==
  IF code = "ENETUNREACH" \/ code = "ETIMEDOUT"
  THEN [result |-> ReturnUndefined, logged |-> FALSE]
  ELSE [result |-> ReturnUndefined, logged |-> TRUE]

\* An assignment where the push should be: the array is replaced by one
\* holding the new id only.
PushOverwriting(seen, id) == <<id>>

\* seenTxs.push(lastTransaction)
Push(seen, id) == Append(seen, id)

\* The caller invokes compareLastTransaction(obj) on instance p.
Begin(p, txid, bchBalance, tokenBalance) ==
  /\ ~Running(p)
  /\ nInv < MaxInvocations
  /\ nInv' = nInv + 1
  /\ pc' = [pc EXCEPT ![p] = "getLastConfirmedTransactions"]
  /\ args' = [args EXCEPT ![p] = [bchAddr |-> BCH_ADDR, txid |-> txid,
                                  bchBalance |-> Fin(bchBalance),
                                  tokenBalance |-> Fin(tokenBalance)]]
  /\ loc' = [loc EXCEPT ![p] = [NoLoc EXCEPT !.newBchBalance = Fin(bchBalance),
                                             !.newTokenBalance = Fin(tokenBalance)]]
  /\ result' = [result EXCEPT ![p] = NoResult]
  /\ issued' = [issued EXCEPT ![p] = <<>>]
  /\ caught' = [caught EXCEPT ![p] = NoCaught]
  /\ seenAtStart' = [seenAtStart EXCEPT ![p] = seenTxs]
  /\ UNCHANGED <<det, ptx, caller, seenTxs, paid>>

\* A catch block that marks the transaction in hand as seen before it
\* returns.
RejectedMarkingSeen(p) ==
  /\ pc[p] \in Awaits
  /\ \E code \in ErrCodes :
       LET c == compareLastTransactionCatch(code)
       IN /\ caught' = [caught EXCEPT ![p] = [code |-> code, at |-> pc[p],
                                              logged |-> c.logged]]
          /\ result' = [result EXCEPT ![p] = c.result]
  /\ issued' = [issued EXCEPT ![p] = Append(@, CallAt(p))]
  /\ seenTxs' = IF loc[p].lastTransaction = NoTx
                THEN seenTxs
                ELSE Push(seenTxs, loc[p].lastTransaction)
  /\ pc' = [pc EXCEPT ![p] = "done"]
  /\ UNCHANGED <<det, ptx, caller, args, loc, seenAtStart, paid, nInv>>

\* The awaited call rejects with err.code = code: control passes to the
\* catch block.
Rejected(p) ==
  /\ pc[p] \in Awaits
  /\ \E code \in ErrCodes :
       LET c == compareLastTransactionCatch(code)
       IN /\ caught' = [caught EXCEPT ![p] = [code |-> code, at |-> pc[p],
                                              logged |-> c.logged]]
          /\ result' = [result EXCEPT ![p] = c.result]
  /\ issued' = [issued EXCEPT ![p] = Append(@, CallAt(p))]
  /\ pc' = [pc EXCEPT ![p] = "done"]
  /\ UNCHANGED <<det, ptx, caller, seenTxs, args, loc, seenAtStart, paid, nInv>>

\* txs.getLastConfirmedTransactions(bchAddr) resolves with a 1-conf list.
GetLastConfirmedTransactions(p) ==
  /\ pc[p] = "getLastConfirmedTransactions"
  /\ \E l \in TxLists : loc' = [loc EXCEPT ![p].lastTransactions = l]
  /\ issued' = [issued EXCEPT ![p] = Append(@, CallAt(p))]
  /\ pc' = [pc EXCEPT ![p] = "only2Conf"]
  /\ UNCHANGED <<det, ptx, caller, seenTxs, args, result, caught, seenAtStart, paid, nInv>>

\* txs.only2Conf(BCH_ADDR1) resolves.  If true the balances are fetched
\* from the blockchain; otherwise the loop runs to its first unseen entry,
\* or to its end and `return false`.  loc.seenAtScan keeps what seenTxs
\* held when line 262 chose the entry.
Only2Conf(p) ==
  /\ pc[p] = "only2Conf"
  /\ issued' = [issued EXCEPT ![p] = Append(@, CallAt(p))]
  /\ \E isOnly2Conf \in BOOLEAN :
       IF isOnly2Conf
       THEN /\ loc' = [loc EXCEPT ![p].isOnly2Conf = TRUE]
            /\ pc' = [pc EXCEPT ![p] = "getBCHBalance"]
            /\ UNCHANGED result
       ELSE LET i == FirstNew(loc[p].lastTransactions, 1, args[p].txid, seenTxs)
            IN IF i = 0
               THEN /\ result' = [result EXCEPT ![p] = ReturnFalse]
                    /\ pc' = [pc EXCEPT ![p] = "done"]
                    /\ UNCHANGED loc
               ELSE /\ loc' = [loc EXCEPT ![p].lastTransaction =
                                              loc[p].lastTransactions[i],
                                           ![p].seenAtScan = seenTxs]
                    /\ pc' = [pc EXCEPT ![p] = "getUserAddr"]
                    /\ UNCHANGED result
  /\ UNCHANGED <<det, ptx, caller, seenTxs, args, caught, seenAtStart, paid, nInv>>

\* getBlockchainBalances returns the two balances as the collaborators
\* reported them.
getBlockchainBalances(bchBalance, tokenBalance) ==
  [bchBalance |-> bchBalance, tokenBalance |-> tokenBalance]

\* retObj2 returned without its lastTransaction being set.
ResyncedUntagged(txid, retObj2) ==
  Balances(NoTx, retObj2.bchBalance, retObj2.tokenBalance)

\* Lines 253-255: retObj2 with lastTransaction = txid.
Resynced(txid, retObj2) ==
  Balances(txid, retObj2.bchBalance, retObj2.tokenBalance)

\* getBlockchainBalances: bch.getBCHBalance(config.BCH_ADDR) resolves.
GetBCHBalance(p) ==
  /\ pc[p] = "getBCHBalance"
  /\ \E balance \in LiveBch :
       loc' = [loc EXCEPT ![p].liveBch = Fin(balance)]
  /\ issued' = [issued EXCEPT ![p] = Append(@, CallAt(p))]
  /\ pc' = [pc EXCEPT ![p] = "getTokenBalance"]
  /\ UNCHANGED <<det, ptx, caller, seenTxs, args, result, caught, seenAtStart, paid, nInv>>

\* getBlockchainBalances: slp.getTokenBalance() resolves; retObj2 is
\* returned with lastTransaction = txid.
GetTokenBalance(p) ==
  /\ pc[p] = "getTokenBalance"
  /\ \E tokenBalance \in LiveTokens :
       /\ loc' = [loc EXCEPT ![p].liveToken = Fin(tokenBalance)]
       /\ result' = [result EXCEPT ![p] =
                       Resynced(args[p].txid,
                                getBlockchainBalances(loc[p].liveBch,
                                                      Fin(tokenBalance)))]
  /\ issued' = [issued EXCEPT ![p] = Append(@, CallAt(p))]
  /\ pc' = [pc EXCEPT ![p] = "done"]
  /\ UNCHANGED <<det, ptx, caller, seenTxs, args, caught, seenAtStart, paid, nInv>>

\* The return of lines 389-396, after seenTxs.push(lastTransaction).
Settled(p) ==
  Balances(loc[p].lastTransaction, round8(loc[p].newBchBalance),
           round8(loc[p].newTokenBalance))

\* A self-echo return that rounds the balances as the settled return does.
SelfEchoRounded(p) ==
  Balances(loc[p].lastTransaction, round8(loc[p].newBchBalance),
           round8(loc[p].newTokenBalance))

\* The return of lines 280-285: the balances as the caller passed them.
SelfEcho(p) ==
  Balances(loc[p].lastTransaction, loc[p].newBchBalance,
           loc[p].newTokenBalance)

\* txs.getUserAddr(lastTransaction) resolves.  A transaction the app sent
\* itself is marked seen and the invocation returns.
GetUserAddr(p) ==
  /\ pc[p] = "getUserAddr"
  /\ issued' = [issued EXCEPT ![p] = Append(@, CallAt(p))]
  /\ \E userAddr \in {BCH_ADDR, USER_ADDR} :
       /\ loc' = [loc EXCEPT ![p].userAddr = userAddr]
       /\ IF userAddr = args[p].bchAddr
          THEN /\ seenTxs' = Push(seenTxs, loc[p].lastTransaction)
               /\ result' = [result EXCEPT ![p] = SelfEcho(p)]
               /\ pc' = [pc EXCEPT ![p] = "done"]
          ELSE /\ pc' = [pc EXCEPT ![p] = "tokenTxInfo"]
               /\ UNCHANGED <<seenTxs, result>>
  /\ UNCHANGED <<det, ptx, caller, args, caught, seenAtStart, paid, nInv>>

\* slp.tokenTxInfo(lastTransaction) resolves.  With a token quantity the
\* coin to send is quoted and the balances updated (lines 298-314);
\* otherwise the received coin is asked for.
TokenTxInfo(p) ==
  /\ pc[p] = "tokenTxInfo"
  /\ issued' = [issued EXCEPT ![p] = Append(@, CallAt(p))]
  /\ \E isTokenTx \in TokenQtys :
       IF isTokenTx # 0
       THEN LET bchOut == exchangeTokensForBCH(isTokenTx, args[p].tokenBalance.v,
                                               BCH_QTY_ORIGINAL, TOKENS_QTY_ORIGINAL)
            IN /\ loc' = [loc EXCEPT
                    ![p].isTokenTx = isTokenTx,
                    ![p].dir = "token",
                    ![p].out = bchOut,
                    ![p].newTokenBalance =
                       round8(NumAdd(args[p].tokenBalance, Fin(isTokenTx))),
                    ![p].newBchBalance =
                       round8(NumSub(args[p].bchBalance, bchOut))]
               /\ pc' = [pc EXCEPT ![p] = "createBchTx"]
       ELSE /\ loc' = [loc EXCEPT ![p].isTokenTx = isTokenTx, ![p].dir = "coin"]
            /\ pc' = [pc EXCEPT ![p] = "recievedBch"]
  /\ UNCHANGED <<det, ptx, caller, seenTxs, args, result, caught, seenAtStart, paid, nInv>>

\* bch.createBchTx({recvAddr: userAddr, satoshisToSend}) resolves.
CreateBchTx(p) ==
  /\ pc[p] = "createBchTx"
  /\ issued' = [issued EXCEPT ![p] = Append(@, CallAt(p))]
  /\ pc' = [pc EXCEPT ![p] = "broadcastBchTx"]
  /\ UNCHANGED <<det, ptx, caller, seenTxs, args, loc, result, caught, seenAtStart, paid, nInv>>

\* bch.broadcastBchTx(hex) resolves: the coin payment to the user is out.
BroadcastBchTx(p) ==
  /\ pc[p] = "broadcastBchTx"
  /\ issued' = [issued EXCEPT ![p] = Append(@, CallAt(p))]
  /\ paid' = [paid EXCEPT ![loc[p].lastTransaction] = @ + 1]
  /\ pc' = [pc EXCEPT ![p] = "createTokenTx"]
  /\ UNCHANGED <<det, ptx, caller, seenTxs, args, loc, result, caught, seenAtStart, nInv>>

\* bch.recievedBch(lastTransaction, BCH_ADDR1) resolves: the tokens to send
\* are quoted and the balances updated (lines 344-365).
RecievedBch(p) ==
  /\ pc[p] = "recievedBch"
  /\ issued' = [issued EXCEPT ![p] = Append(@, CallAt(p))]
  /\ \E bchQty \in BchQtys :
       LET retObj == exchangeBCHForTokens(bchQty, args[p].bchBalance.v,
                                          BCH_QTY_ORIGINAL, TOKENS_QTY_ORIGINAL)
       IN loc' = [loc EXCEPT
            ![p].bchQty = bchQty,
            ![p].out = retObj.tokensOut,
            ![p].newBchBalance = round8(NumAdd(args[p].bchBalance, Fin(bchQty))),
            ![p].newTokenBalance =
               round8(NumSub(args[p].tokenBalance, retObj.tokensOut))]
  /\ pc' = [pc EXCEPT ![p] = "createTokenTx"]
  /\ UNCHANGED <<det, ptx, caller, seenTxs, args, result, caught, seenAtStart, paid, nInv>>

\* createTokenTx resolving with the TXID pushed to seenTxs there, ahead of
\* the token broadcast.
CreateTokenTxMarkingSeen(p) ==
  /\ pc[p] = "createTokenTx"
  /\ issued' = [issued EXCEPT ![p] = Append(@, CallAt(p))]
  /\ seenTxs' = Push(seenTxs, loc[p].lastTransaction)
  /\ pc' = [pc EXCEPT ![p] = "broadcastTokenTx"]
  /\ UNCHANGED <<det, ptx, caller, args, loc, result, caught, seenAtStart, paid, nInv>>

\* slp.createTokenTx resolves: config.SLP_ADDR and the received quantity
\* when the user sent tokens, userAddr and the quote when the user sent coin.
CreateTokenTx(p) ==
  /\ pc[p] = "createTokenTx"
  /\ issued' = [issued EXCEPT ![p] = Append(@, CallAt(p))]
  /\ pc' = [pc EXCEPT ![p] = "broadcastTokenTx"]
  /\ UNCHANGED <<det, ptx, caller, seenTxs, args, loc, result, caught, seenAtStart, paid, nInv>>

\* broadcastTokenTx resolving in a loop that lacks its return: after the
\* push the loop goes on to the next unseen entry, if there is one.
BroadcastTokenTxContinuing(p) ==
  /\ pc[p] = "broadcastTokenTx"
  /\ issued' = [issued EXCEPT ![p] = Append(@, CallAt(p))]
  /\ paid' = IF loc[p].dir = "coin"
             THEN [paid EXCEPT ![loc[p].lastTransaction] = @ + 1]
             ELSE paid
  /\ seenTxs' = Push(seenTxs, loc[p].lastTransaction)
  /\ LET i == FirstNew(loc[p].lastTransactions, 1, args[p].txid, seenTxs')
     IN IF i = 0
        THEN /\ result' = [result EXCEPT ![p] = Settled(p)]
             /\ pc' = [pc EXCEPT ![p] = "done"]
             /\ UNCHANGED loc
        ELSE /\ loc' = [loc EXCEPT ![p].lastTransaction =
                                       loc[p].lastTransactions[i]]
             /\ pc' = [pc EXCEPT ![p] = "getUserAddr"]
             /\ UNCHANGED result
  /\ UNCHANGED <<det, ptx, caller, args, caught, seenAtStart, nInv>>

\* slp.broadcastTokenTx(tokenConfig) resolves; then the TXID is pushed to
\* seenTxs and the new balances are returned (lines 384-396).
BroadcastTokenTx(p) ==
  /\ pc[p] = "broadcastTokenTx"
  /\ issued' = [issued EXCEPT ![p] = Append(@, CallAt(p))]
  /\ paid' = IF loc[p].dir = "coin"
             THEN [paid EXCEPT ![loc[p].lastTransaction] = @ + 1]
             ELSE paid
  /\ seenTxs' = Push(seenTxs, loc[p].lastTransaction)
  /\ result' = [result EXCEPT ![p] = Settled(p)]
  /\ pc' = [pc EXCEPT ![p] = "done"]
  /\ UNCHANGED <<det, ptx, caller, args, loc, caught, seenAtStart, nInv>>

\* One step of instance p after its invocation.
Step(p) ==
  \/ Rejected(p)
  \/ GetLastConfirmedTransactions(p)
  \/ Only2Conf(p)
  \/ GetBCHBalance(p)
  \/ GetTokenBalance(p)
  \/ GetUserAddr(p)
  \/ TokenTxInfo(p)
  \/ CreateBchTx(p)
  \/ BroadcastBchTx(p)
  \/ RecievedBch(p)
  \/ CreateTokenTx(p)
  \/ BroadcastTokenTx(p)

\* The scheduler polls: one invocation at a time, each awaited to its end.
Poll ==
  /\ \A q \in Procs : ~Running(q)
  /\ \E txid \in TxIds \cup {NoTx}, b \in CallerBalances :
       Begin(1, txid, b[1], b[2])

Next == Poll \/ Step(1)

Spec == Init /\ [][Next]_vars

\* Overlapping cycles: nothing in the module keeps a second invocation from
\* starting while another is suspended at an await.  Two invocations, one
\* per instance, each started at any moment, from a fresh caller state (no
\* last-known txid, the original balances).
OverlapPoll ==
  \E p \in Procs :
    /\ pc[p] = "idle"
    /\ Begin(p, NoTx, BCH_QTY_ORIGINAL, TOKENS_QTY_ORIGINAL)

NextOverlap == OverlapPoll \/ \E p \in Procs : Step(p)

SpecOverlap == Init /\ [][NextOverlap]_vars

\* A polling caller: invocations one at a time on instance 1, for ever, the
\* 1-conf list the same at every poll, no awaited call failing, only2Conf
\* false.  The state at the first poll is one sequential invocations leave
\* behind: a seenTxs without repetitions, any last-known txid.
InitLive ==
  /\ seenTxs \in TxLists
  /\ pc = [p \in Procs |-> "idle"]
  /\ args = [p \in Procs |-> NoArgs]
  /\ loc = [p \in Procs |-> NoLoc]
  /\ result = [p \in Procs |-> NoResult]
  /\ issued = [p \in Procs |-> <<>>]
  /\ caught = [p \in Procs |-> NoCaught]
  /\ seenAtStart = [p \in Procs |-> <<>>]
  /\ paid = [x \in TxIds |-> 0]
  /\ nInv = 0
  /\ det = NoDet
  /\ ptx = NoPtx
  /\ \E l \in TxLists, t \in TxIds \cup {NoTx} :
       caller = [list |-> l, seen0 |-> seenTxs, txid0 |-> t, txid |-> t]

\* The caller invokes compareLastTransaction again once the invocation
\* before has ended, passing the lastTransaction it returned as txid; a
\* return without balances leaves the caller's txid as it was.
LivePoll ==
  /\ ~Running(1)
  /\ LET txid == IF result[1].kind = "balances"
                 THEN result[1].lastTransaction
                 ELSE caller.txid
     IN /\ caller' = [caller EXCEPT !.txid = txid]
        /\ \E b \in CallerBalances :
             /\ args' = [args EXCEPT ![1] = [bchAddr |-> BCH_ADDR, txid |-> txid,
                                             bchBalance |-> Fin(b[1]),
                                             tokenBalance |-> Fin(b[2])]]
             /\ loc' = [loc EXCEPT ![1] = [NoLoc EXCEPT
                                             !.newBchBalance = Fin(b[1]),
                                             !.newTokenBalance = Fin(b[2])]]
  /\ pc' = [pc EXCEPT ![1] = "getLastConfirmedTransactions"]
  /\ result' = [result EXCEPT ![1] = NoResult]
  /\ issued' = [issued EXCEPT ![1] = <<>>]
  /\ caught' = [caught EXCEPT ![1] = NoCaught]
  /\ seenAtStart' = [seenAtStart EXCEPT ![1] = seenTxs]
  /\ UNCHANGED <<det, ptx, seenTxs, paid, nInv>>

\* getLastConfirmedTransactions resolves with the caller's fixed list.
LiveGetLastConfirmedTransactions ==
  /\ GetLastConfirmedTransactions(1)
  /\ loc'[1].lastTransactions = caller.list

\* only2Conf resolves with false.
LiveOnly2Conf ==
  /\ Only2Conf(1)
  /\ ~loc'[1].isOnly2Conf

NextLive ==
  \/ LivePoll
  \/ LiveGetLastConfirmedTransactions
  \/ LiveOnly2Conf
  \/ GetUserAddr(1)
  \/ TokenTxInfo(1)
  \/ CreateBchTx(1)
  \/ BroadcastBchTx(1)
  \/ RecievedBch(1)
  \/ CreateTokenTx(1)
  \/ BroadcastTokenTx(1)

\* Instance 1 moves on: from an await to the code after it, from the end of
\* an invocation to the next poll.
MovesOn == \E l \in Awaits \cup {"done"} : l # pc[1] /\ pc' = [pc EXCEPT ![1] = l]

\* The scheduler keeps polling and every awaited call resolves, so the
\* instance never stays at one await, or between two polls, for ever.
SpecLive == InitLive /\ [][NextLive]_vars /\ WF_pc(MovesOn)

\* ------------------------------------------------------------------------
\* detectNewTxs
\* ------------------------------------------------------------------------

\* The deepest confirmation count the transaction query service reports.
MaxConf == 2

\* The transactions in the address's history are 1..NumLiveTx.
NumLiveTx == 3

LiveTxIds == 1..NumLiveTx

\* The lists of txids without repetition: addrInfo.txids, and the seenTxs a
\* caller passes.
LiveTxLists ==
  UNION {{l \in [1..n -> LiveTxIds] : \A i, j \in 1..n : i # j => l[i] # l[j]} :
         n \in 0..NumLiveTx}

\* collect(addrInfo.txids).diff(seenTxs): the txids not among seenTxs, in
\* their order.
Diff(curTxs, seen) == SelectSeq(curTxs, LAMBDA x : x \notin Range(seen))

\* txs.getTxConfirmations(txids): one {txid, confirmations} per txid asked
\* for, conf being the chain's confirmation count of each transaction.
getTxConfirmations(txids, conf) ==
  [i \in 1..Len(txids) |-> [txid |-> txids[i], confirmations |-> conf[txids[i]]]]

\* A filter that lets zero-conf transactions through.
FilterNonNegative(confs) == SelectSeq(confs, LAMBDA x : x.confirmations >= 0)

\* confs.filter(x => x.confirmations > 0)
FilterConfirmed(confs) == SelectSeq(confs, LAMBDA x : x.confirmations > 0)

\* detectNewTxs({seenTxs}) is called.
DetectNewTxs ==
  /\ det.pc \in {"idle", "done"}
  /\ \E seen \in LiveTxLists :
       det' = [NoDet EXCEPT !.pc = "getBCHBalance", !.seenTxs = seen]
  /\ UNCHANGED <<seenTxs, pc, args, loc, result, issued, caught, seenAtStart,
                 paid, nInv, ptx, caller>>

\* bch.getBCHBalance(config.BCH_ADDR, false) resolves with the address's
\* txids; with nothing new the call returns [].
DetectGetBCHBalance ==
  /\ det.pc = "getBCHBalance"
  /\ \E txids \in LiveTxLists :
       LET diffTxs == Diff(txids, det.seenTxs)
       IN IF Len(diffTxs) = 0
          THEN det' = [det EXCEPT !.pc = "done", !.txids = txids,
                                  !.kind = "list", !.newTxs = <<>>]
          ELSE det' = [det EXCEPT !.pc = "getTxConfirmations", !.txids = txids,
                                  !.diffTxs = diffTxs]
  /\ UNCHANGED <<seenTxs, pc, args, loc, result, issued, caught, seenAtStart,
                 paid, nInv, ptx, caller>>

\* txs.getTxConfirmations(diffTxs.items) resolves; the zero-conf entries
\* are filtered out and the rest returned.
DetectGetTxConfirmations ==
  /\ det.pc = "getTxConfirmations"
  /\ \E conf \in [Range(det.diffTxs) -> 0..MaxConf] :
       LET confs == getTxConfirmations(det.diffTxs, conf)
       IN det' = [det EXCEPT !.pc = "done", !.confs = confs, !.kind = "list",
                             !.newTxs = FilterConfirmed(confs)]
  /\ UNCHANGED <<seenTxs, pc, args, loc, result, issued, caught, seenAtStart,
                 paid, nInv, ptx, caller>>

\* An awaited call rejects: the catch block logs and throws the error.
DetectRejected ==
  /\ det.pc \in {"getBCHBalance", "getTxConfirmations"}
  /\ det' = [det EXCEPT !.pc = "done", !.kind = "thrown"]
  /\ UNCHANGED <<seenTxs, pc, args, loc, result, issued, caught, seenAtStart,
                 paid, nInv, ptx, caller>>

NextDetect ==
  \/ DetectNewTxs
  \/ DetectGetBCHBalance
  \/ DetectGetTxConfirmations
  \/ DetectRejected

SpecDetect == Init /\ [][NextDetect]_vars

\* ------------------------------------------------------------------------
\* processTx
\* ------------------------------------------------------------------------

\* Malformed transaction ids: the empty string, and a value that is no
\* string.
EmptyTxid == -1

NonStringTxid == -2

\* typeof txid
TypeOf(txid) == IF txid = NonStringTxid THEN "undefined" ELSE "string"

\* The data validation of line 99: whether txid is accepted.
ValidTxid(txid) == TypeOf(txid) = "string"

PtxAwaits == {"getUserAddr", "tokenTxInfo", "createBchTx", "broadcastBchTx",
              "createTokenTx", "broadcastTokenTx", "recievedBch"}

\* The call processTx is awaiting.
PtxCall ==
  IF ptx.pc \in {"createBchTx", "broadcastBchTx"}
  THEN Call(ptx.pc, ptx.txid, ptx.userAddr, FloorSats(ptx.out))
  ELSE IF ptx.pc \in {"createTokenTx", "broadcastTokenTx"}
  THEN IF ptx.dir = "token"
       THEN Call(ptx.pc, ptx.txid, SLP_ADDR, Fin(ptx.isTokenTx))
       ELSE Call(ptx.pc, ptx.txid, ptx.userAddr, ptx.out)
  ELSE Call(ptx.pc, ptx.txid, "none", Fin(0))

\* processTx({txid, bchBalance, tokenBalance}) is called: a txid that is no
\* string throws at once, through the catch block, to the caller.
ProcessTx ==
  /\ ptx.pc \in {"idle", "done"}
  /\ \E txid \in TxIds \cup {EmptyTxid, NonStringTxid}, b \in CallerBalances :
       LET inObj == [NoPtx EXCEPT !.txid = txid, !.bchBalance = Fin(b[1]),
                                  !.tokenBalance = Fin(b[2])]
       IN IF ValidTxid(txid)
          THEN ptx' = [inObj EXCEPT !.pc = "getUserAddr"]
          ELSE ptx' = [inObj EXCEPT !.pc = "done", !.result = Thrown]
  /\ UNCHANGED <<seenTxs, pc, args, loc, result, issued, caught, seenAtStart,
                 paid, nInv, det, caller>>

\* An awaited call rejects: the catch block logs and throws the error.
PtxRejected ==
  /\ ptx.pc \in PtxAwaits
  /\ ptx' = [ptx EXCEPT !.pc = "done", !.result = Thrown,
                        !.issued = Append(@, PtxCall)]
  /\ UNCHANGED <<seenTxs, pc, args, loc, result, issued, caught, seenAtStart,
                 paid, nInv, det, caller>>

\* txs.getUserAddr(txid) resolves; for the app's own address inObj is
\* returned as it came.
PtxGetUserAddr ==
  /\ ptx.pc = "getUserAddr"
  /\ \E userAddr \in {BCH_ADDR, USER_ADDR} :
       IF userAddr = BCH_ADDR
       THEN ptx' = [ptx EXCEPT !.pc = "done", !.userAddr = userAddr,
                               !.issued = Append(@, PtxCall),
                               !.result = Balances(ptx.txid, ptx.bchBalance,
                                                   ptx.tokenBalance)]
       ELSE ptx' = [ptx EXCEPT !.pc = "tokenTxInfo", !.userAddr = userAddr,
                               !.issued = Append(@, PtxCall)]
  /\ UNCHANGED <<seenTxs, pc, args, loc, result, issued, caught, seenAtStart,
                 paid, nInv, det, caller>>

\* slp.tokenTxInfo(txid) resolves (lines 120-149).
PtxTokenTxInfo ==
  /\ ptx.pc = "tokenTxInfo"
  /\ \E isTokenTx \in TokenQtys :
       IF isTokenTx # 0
       THEN LET bchOut == exchangeTokensForBCH(isTokenTx, ptx.tokenBalance.v,
                                               BCH_QTY_ORIGINAL, TOKENS_QTY_ORIGINAL)
            IN ptx' = [ptx EXCEPT
                 !.pc = "createBchTx", !.isTokenTx = isTokenTx, !.dir = "token",
                 !.out = bchOut, !.issued = Append(@, PtxCall),
                 !.newTokenBalance = round8(NumAdd(ptx.tokenBalance, Fin(isTokenTx))),
                 !.newBchBalance = round8(NumSub(ptx.bchBalance, bchOut))]
       ELSE ptx' = [ptx EXCEPT !.pc = "recievedBch", !.dir = "coin",
                               !.issued = Append(@, PtxCall)]
  /\ UNCHANGED <<seenTxs, pc, args, loc, result, issued, caught, seenAtStart,
                 paid, nInv, det, caller>>

\* bch.createBchTx, bch.broadcastBchTx and slp.createTokenTx resolve.
PtxSend ==
  /\ ptx.pc \in {"createBchTx", "broadcastBchTx", "createTokenTx"}
  /\ ptx' = [ptx EXCEPT
       !.pc = IF ptx.pc = "createBchTx" THEN "broadcastBchTx"
              ELSE IF ptx.pc = "broadcastBchTx" THEN "createTokenTx"
              ELSE "broadcastTokenTx",
       !.issued = Append(@, PtxCall)]
  /\ UNCHANGED <<seenTxs, pc, args, loc, result, issued, caught, seenAtStart,
                 paid, nInv, det, caller>>

\* bch.recievedBch(txid, BCH_ADDR1) resolves (lines 173-197).
PtxRecievedBch ==
  /\ ptx.pc = "recievedBch"
  /\ \E bchQty \in BchQtys :
       LET retObj == exchangeBCHForTokens(bchQty, ptx.bchBalance.v,
                                          BCH_QTY_ORIGINAL, TOKENS_QTY_ORIGINAL)
       IN ptx' = [ptx EXCEPT
            !.pc = "createTokenTx", !.out = retObj.tokensOut,
            !.issued = Append(@, PtxCall),
            !.newBchBalance = round8(NumAdd(ptx.bchBalance, Fin(bchQty))),
            !.newTokenBalance = round8(NumSub(ptx.tokenBalance, retObj.tokensOut))]
  /\ UNCHANGED <<seenTxs, pc, args, loc, result, issued, caught, seenAtStart,
                 paid, nInv, det, caller>>

\* slp.broadcastTokenTx resolves; retObj = {txid, bchBalance, tokenBalance}
\* is returned (lines 211-218).
PtxBroadcastTokenTx ==
  /\ ptx.pc = "broadcastTokenTx"
  /\ ptx' = [ptx EXCEPT
       !.pc = "done", !.issued = Append(@, PtxCall),
       !.result = Balances(ptx.txid, round8(ptx.newBchBalance),
                           round8(ptx.newTokenBalance))]
  /\ UNCHANGED <<seenTxs, pc, args, loc, result, issued, caught, seenAtStart,
                 paid, nInv, det, caller>>

NextProcessTx ==
  \/ ProcessTx
  \/ PtxRejected
  \/ PtxGetUserAddr
  \/ PtxTokenTxInfo
  \/ PtxSend
  \/ PtxRecievedBch
  \/ PtxBroadcastTokenTx

SpecProcessTx == Init /\ [][NextProcessTx]_vars

\* ------------------------------------------------------------------------
\* Properties of compareLastTransaction
\* ------------------------------------------------------------------------

\* The names of the calls instance p has issued.
Fns(p) == {issued[p][i].fn : i \in 1..Len(issued[p])}

NetworkErrors == {"ENETUNREACH", "ETIMEDOUT"}

\* C1.  Idempotency: no invocation issues a settlement call (createBchTx,
\* broadcastBchTx, createTokenTx, broadcastTokenTx) for a transaction id
\* that was in seenTxs when the invocation began, whatever txid and 1-conf
\* list it is given.
C1_NoSettlementForSeen ==
  \A p \in Procs : \A i \in 1..Len(issued[p]) :
    issued[p][i].fn \in SettlementCalls =>
      issued[p][i].tx \notin Range(seenAtStart[p])

\* An invocation whose 1-conf list holds an id already in seenTxs, other
\* than the caller's txid, has run its loop over it and settled another.
C1_Witness ==
  \E p \in Procs :
    /\ pc[p] = "done"
    /\ result[p].kind = "balances"
    /\ ~loc[p].isOnly2Conf
    /\ \E x \in Range(seenAtStart[p]) :
         /\ x \in Range(loc[p].lastTransactions)
         /\ x # args[p].txid
         /\ x # loc[p].lastTransaction
    /\ "broadcastTokenTx" \in Fns(p)

\* C2.  At most one invocation broadcasts an outbound payment for any
\* transaction id.
C2_PaidAtMostOnce == \A x \in TxIds : paid[x] <= 1

\* C3.  An error that is neither ENETUNREACH nor ETIMEDOUT ends the
\* invocation in a thrown error.
C3_OtherErrorsRethrown ==
  \A p \in Procs :
    caught[p].code \notin (NetworkErrors \cup {"none"}) =>
      result[p].kind = "thrown"

\* C4.  A network-unreachable or timeout error from any awaited call is
\* caught: the invocation ends, returning undefined, which is neither a
\* thrown error nor false nor a balances object.
C4_NetworkErrorReturnsUndefined ==
  \A p \in Procs :
    caught[p].code \in NetworkErrors =>
      /\ pc[p] = "done"
      /\ result[p] = ReturnUndefined
      /\ result[p].kind \notin {"thrown", "false", "balances"}

\* A broadcast of the coin payment timed out.
C4_Witness ==
  \E p \in Procs :
    /\ caught[p].code = "ETIMEDOUT"
    /\ caught[p].at = "broadcastBchTx"
    /\ pc[p] = "done"

\* C5.  Self-echo: when the sender is the pool's own address the invocation
\* issues no settlement call, has the id in seenTxs, returns the balances
\* the caller passed, tagged with the id, and looks no further entry up:
\* the one sender lookup is its last call.
C5_SelfEcho ==
  \A p \in Procs :
    (pc[p] = "done" /\ loc[p].userAddr = args[p].bchAddr) =>
      /\ Fns(p) \cap SettlementCalls = {}
      /\ Fns(p) \cap {"tokenTxInfo", "recievedBch"} = {}
      /\ loc[p].lastTransaction \in Range(seenTxs)
      /\ result[p] = Balances(loc[p].lastTransaction, args[p].bchBalance,
                              args[p].tokenBalance)
      /\ issued[p][Len(issued[p])].fn = "getUserAddr"
      /\ Cardinality({i \in 1..Len(issued[p]) :
                        issued[p][i].fn = "getUserAddr"}) = 1

\* A self-echo of the first of two unseen entries, with balances that have
\* a ninth fractional digit.
C5_Witness ==
  \E p \in Procs :
    /\ pc[p] = "done"
    /\ loc[p].userAddr = args[p].bchAddr
    /\ Len(loc[p].lastTransactions) = 2
    /\ loc[p].lastTransaction = loc[p].lastTransactions[1]
    /\ loc[p].lastTransactions[2] \notin Range(seenTxs)
    /\ ~Has8Digits(args[p].bchBalance)

\* C7.  Resynchronization: when only2Conf is true the invocation makes no
\* sender lookup, classification or settlement call, leaves seenTxs as it
\* was, and, its two balance queries answered, returns the live balances
\* with lastTransaction = the caller's txid.
C7_Resync ==
  \A p \in Procs :
    loc[p].isOnly2Conf =>
      /\ Fns(p) \subseteq {"getLastConfirmedTransactions", "only2Conf",
                           "getBCHBalance", "getTokenBalance"}
      /\ seenTxs = seenAtStart[p]
      /\ (pc[p] = "done" /\ caught[p].code = "none") =>
           result[p] = Balances(args[p].txid, loc[p].liveBch, loc[p].liveToken)

\* A resynchronization returned, with unseen entries in the 1-conf list.
C7_Witness ==
  \E p \in Procs :
    /\ loc[p].isOnly2Conf
    /\ pc[p] = "done"
    /\ result[p].kind = "balances"
    /\ args[p].txid # NoTx
    /\ \E x \in Range(loc[p].lastTransactions) :
         x # args[p].txid /\ x \notin Range(seenTxs)

\* The coin quote of instance p was computed outside the curve's domain.
OutsideDomain(p) ==
  /\ loc[p].dir = "coin"
  /\ pc[p] # "recievedBch"
  /\ caught[p].at # "recievedBch"
  /\ \/ args[p].bchBalance.v <= 0
     \/ args[p].bchBalance.v - loc[p].bchQty - FEE <= 0
     \/ BCH_QTY_ORIGINAL <= 0
     \/ TOKENS_QTY_ORIGINAL <= 0

\* C8.  Every settled coin inflow returns a strictly greater coin balance
\* and a strictly smaller token balance than the caller passed; every
\* settled token inflow a strictly greater token balance and a strictly
\* smaller coin balance.  Stated for the quotes computed inside the curve's
\* domain, where every quantity involved is finite.
C8_StrictReserveChange ==
  \A p \in Procs :
    (pc[p] = "done" /\ result[p].kind = "balances" /\ ~OutsideDomain(p)) =>
      /\ loc[p].dir = "coin" =>
           /\ NumGt(result[p].bchBalance, args[p].bchBalance)
           /\ NumLt(result[p].tokenBalance, args[p].tokenBalance)
      /\ loc[p].dir = "token" =>
           /\ NumGt(result[p].tokenBalance, args[p].tokenBalance)
           /\ NumLt(result[p].bchBalance, args[p].bchBalance)

\* C9.  A coin quote outside the curve's domain is rejected before any
\* settlement: the invocation issues no settlement call and returns no
\* balances.
C9_DomainRejected ==
  \A p \in Procs :
    OutsideDomain(p) =>
      /\ pc[p] \notin {"createTokenTx", "broadcastTokenTx"}
      /\ Fns(p) \cap SettlementCalls = {}
      /\ result[p].kind # "balances"

\* ------------------------------------------------------------------------
\* Properties of detectNewTxs and processTx
\* ------------------------------------------------------------------------

\* C6.  detectNewTxs returns exactly the entries whose txid is in the
\* address's live list, is not in the seenTxs it was given, and has
\* confirmations > 0: every returned entry is such an entry, and every such
\* entry is returned.
C6_DetectExact ==
  (det.pc = "done" /\ det.kind = "list") =>
    LET unseen == Range(det.txids) \ Range(det.seenTxs)
        R == det.newTxs
    IN /\ \A i \in 1..Len(R) :
            /\ R[i].confirmations > 0
            /\ R[i].txid \in unseen
       /\ \A j \in 1..Len(det.confs) :
            det.confs[j].confirmations > 0 => \E i \in 1..Len(R) : R[i] = det.confs[j]
       /\ unseen # {} => \A x \in unseen : \E j \in 1..Len(det.confs) :
                           det.confs[j].txid = x

\* seen = [1], live = [1, 2, 3]: 2 has no confirmation and is left out, 3
\* has two and is the one entry returned.
C6_Witness ==
  /\ det.pc = "done"
  /\ det.kind = "list"
  /\ det.seenTxs = <<1>>
  /\ det.txids = <<1, 2, 3>>
  /\ det.confs = <<[txid |-> 2, confirmations |-> 0],
                   [txid |-> 3, confirmations |-> 2]>>
  /\ det.newTxs = <<[txid |-> 3, confirmations |-> 2]>>

\* C10.  A malformed txid (no string, or the empty string) makes processTx
\* throw to its caller before any collaborator call is issued.
C10_MalformedRejected ==
  ptx.txid \in {EmptyTxid, NonStringTxid} =>
    /\ ptx.issued = <<>>
    /\ ptx.pc = "done" => ptx.result.kind = "thrown"

\* ------------------------------------------------------------------------
\* Further properties of compareLastTransaction
\* ------------------------------------------------------------------------

\* C11.  Every balance compareLastTransaction returns, on any returning
\* path (settled coin or token inflow, self-echo, resynchronization), has
\* at most 8 fractional decimal digits, whatever balances the caller passed
\* and the collaborators reported.
C11_ReturnedBalancesRounded ==
  \A p \in Procs :
    result[p].kind = "balances" =>
      /\ Has8Digits(result[p].bchBalance)
      /\ Has8Digits(result[p].tokenBalance)

\* Instance p ended a coin or token inflow on x with its settlement issued
\* and no call failed.
SettledFor(p, x) ==
  /\ pc[p] = "done"
  /\ caught[p].code = "none"
  /\ loc[p].dir # "none"
  /\ loc[p].lastTransaction = x
  /\ result[p].kind = "balances"

\* C12.  Without mutual exclusion two invocations can both settle the same
\* transaction: whenever two instances have both settled x, x was in
\* seenTxs at neither's membership check, that is, each made its check
\* before the other's seenTxs.push; and such a double settlement is
\* reachable (C12_Witness).
C12_DoubleSettlementByOverlap ==
  \A p, q \in Procs : \A x \in TxIds :
    (p # q /\ SettledFor(p, x) /\ SettledFor(q, x)) =>
      /\ x \notin Range(loc[p].seenAtScan)
      /\ x \notin Range(loc[q].seenAtScan)

\* Both instances settled transaction 1 with no call failing: it was paid
\* for twice and pushed to seenTxs twice.
C12_Witness ==
  /\ SettledFor(1, 1)
  /\ SettledFor(2, 1)
  /\ paid[1] = 2
  /\ seenTxs = <<1, 1>>

\* The ids this invocation of instance p has added to seenTxs (invocations
\* one at a time).
AddedBy(p) == Range(seenTxs) \ Range(seenAtStart[p])

TxsOf(p, fns) ==
  {issued[p][i].tx : i \in {j \in 1..Len(issued[p]) : issued[p][j].fn \in fns}}

\* C14.  One invocation processes at most one event: it adds at most one id
\* to seenTxs and issues settlement calls for at most one transaction,
\* however many unseen entries the 1-conf list holds.
C14_AtMostOneEvent ==
  \A p \in Procs : pc[p] # "idle" =>
    /\ Len(seenTxs) <= Len(seenAtStart[p]) + 1
    /\ Cardinality(AddedBy(p)) <= 1
    /\ Cardinality(TxsOf(p, SettlementCalls)) <= 1
    /\ Cardinality(TxsOf(p, {"getUserAddr", "tokenTxInfo", "recievedBch"})) <= 1

\* An invocation given two unseen entries settled the first and returned:
\* the second is still unseen.
C14_Witness ==
  \E p \in Procs :
    /\ pc[p] = "done"
    /\ Len(loc[p].lastTransactions) = 2
    /\ Range(loc[p].lastTransactions) \cap Range(seenAtStart[p]) = {}
    /\ args[p].txid \notin Range(loc[p].lastTransactions)
    /\ TxsOf(p, SettlementCalls) = {loc[p].lastTransactions[1]}
    /\ AddedBy(p) = {loc[p].lastTransactions[1]}
    /\ loc[p].lastTransactions[2] \notin Range(seenTxs)

\* Entry k of the 1-conf list of instance p qualifies: it differs from the
\* caller's txid and was not in seenTxs.
Qualifies(p, k) ==
  /\ loc[p].lastTransactions[k] # args[p].txid
  /\ loc[p].lastTransactions[k] \notin Range(seenAtStart[p])

\* C15.  When not resynchronizing, the transaction an invocation acts on
\* (looks up, classifies, settles, adds to seenTxs) is the first entry of
\* the 1-conf list, in list order, that differs from txid and is absent
\* from seenTxs: every entry before it equals txid or is in seenTxs, and no
\* other entry is acted on.
C15_FirstUnseenActedOn ==
  \A p \in Procs :
    LET l == loc[p].lastTransactions
        acted == (TxsOf(p, Awaits) \ {NoTx})
                   \cup ({loc[p].lastTransaction} \ {NoTx})
                   \cup (IF pc[p] = "idle" THEN {} ELSE AddedBy(p))
    IN \A x \in acted :
         /\ ~loc[p].isOnly2Conf
         /\ \E k \in 1..Len(l) :
              /\ l[k] = x
              /\ Qualifies(p, k)
              /\ \A j \in 1..(k - 1) : ~Qualifies(p, j)

\* The first entry is the caller's txid, not in seenTxs, and was passed
\* over; the second was settled.
C15_Witness ==
  \E p \in Procs :
    /\ pc[p] = "done"
    /\ Len(loc[p].lastTransactions) = 2
    /\ loc[p].lastTransactions[1] = args[p].txid
    /\ args[p].txid \notin Range(seenTxs)
    /\ TxsOf(p, SettlementCalls) = {loc[p].lastTransactions[2]}
    /\ AddedBy(p) = {loc[p].lastTransactions[2]}

\* C16.  When not resynchronizing and every entry of the 1-conf list equals
\* txid or is in seenTxs (the empty list included), the invocation returns
\* false, issues no sender lookup, classification or settlement call, and
\* leaves seenTxs unchanged.
C16_NothingNew ==
  \A p \in Procs :
    (/\ pc[p] # "idle"
     /\ ~loc[p].isOnly2Conf
     /\ \A k \in 1..Len(loc[p].lastTransactions) : ~Qualifies(p, k)) =>
      /\ Fns(p) \subseteq {"getLastConfirmedTransactions", "only2Conf"}
      /\ seenTxs = seenAtStart[p]
      /\ (pc[p] = "done" /\ caught[p].code = "none") =>
           /\ result[p].kind = "false"
           /\ Len(issued[p]) = 2

\* A list of two entries, the caller's txid and an id already in seenTxs:
\* the invocation returned false.
C16_Witness ==
  \E p \in Procs :
    /\ pc[p] = "done"
    /\ result[p].kind = "false"
    /\ Len(loc[p].lastTransactions) = 2
    /\ loc[p].lastTransactions[1] = args[p].txid
    /\ loc[p].lastTransactions[1] \notin Range(seenTxs)
    /\ loc[p].lastTransactions[2] \in Range(seenAtStart[p])

\* The settlement calls of instance p's invocation, in the order issued.
SettlementOf(p) ==
  SelectSeq(issued[p], LAMBDA c : c.fn \in SettlementCalls)

\* C17.  A successful token inflow issues exactly one coin payment, to the
\* sender, and then exactly one token transfer, of the received quantity
\* tokenIn to the pool's custody address, in that order; a successful coin
\* inflow issues exactly one token transfer, of the quoted quantity to the
\* sender, and no coin payment.
C17_SettlementCalls ==
  \A p \in Procs : \A x \in TxIds :
    SettledFor(p, x) =>
      LET l == loc[p]
      IN /\ l.userAddr = USER_ADDR
         /\ l.dir = "token" =>
              SettlementOf(p) =
                <<[fn |-> "createBchTx", tx |-> x, to |-> USER_ADDR,
                   amt |-> FloorSats(l.out)],
                  [fn |-> "broadcastBchTx", tx |-> x, to |-> USER_ADDR,
                   amt |-> FloorSats(l.out)],
                  [fn |-> "createTokenTx", tx |-> x, to |-> SLP_ADDR,
                   amt |-> Fin(l.isTokenTx)],
                  [fn |-> "broadcastTokenTx", tx |-> x, to |-> SLP_ADDR,
                   amt |-> Fin(l.isTokenTx)]>>
         /\ l.dir = "coin" =>
              SettlementOf(p) =
                <<[fn |-> "createTokenTx", tx |-> x, to |-> USER_ADDR,
                   amt |-> l.out],
                  [fn |-> "broadcastTokenTx", tx |-> x, to |-> USER_ADDR,
                   amt |-> l.out]>>

\* An earlier invocation settled transaction 1; this one settled a token
\* inflow of 40000 units, transaction 2.
C17_Witness ==
  \E p \in Procs :
    /\ SettledFor(p, 2)
    /\ loc[p].dir = "token"
    /\ loc[p].isTokenTx = 40000
    /\ seenTxs = <<1, 2>>
    /\ paid[1] = 1
    /\ paid[2] = 1

C19_SeenTxsGrowsBySet ==
  [][/\ \/ seenTxs' = seenTxs
        \/ \E x \in TxIds \ Range(seenTxs) : seenTxs' = Append(seenTxs, x)
     /\ \A p \in Procs :
          (pc[p] # "idle" /\ seenAtStart'[p] = seenAtStart[p]) =>
            Len(seenTxs') <= Len(seenAtStart[p]) + 1
     /\ Cardinality(Range(seenTxs')) = Len(seenTxs')]_vars

\* Two invocations each appended an id: seenTxs holds both, each once.
C19_Witness ==
  /\ Len(seenTxs) = 2
  /\ Cardinality(Range(seenTxs)) = 2
  /\ nInv = 2

\* The entries of the caller's list that were absent from seenTxs and
\* different from the last-known txid at the first poll.
Named ==
  {x \in Range(caller.list) : x \notin Range(caller.seen0) /\ x # caller.txid0}

\* Every entry of the caller's list was in seenTxs, or was the txid passed,
\* when instance p's invocation began.
NothingNewFor(p) ==
  \A x \in Range(caller.list) : x \in Range(seenAtStart[p]) \/ x = args[p].txid

\* C20 as stated.  With the list fixed, no call failing, no
\* resynchronization and the returned lastTransaction passed on as the next
\* txid, every named entry is eventually in seenTxs, one added per
\* invocation, and every invocation that begins with the named entries all
\* in seenTxs returns false.
C20_FalseAfterNamedAdded ==
  /\ <>(Named \subseteq Range(seenTxs))
  /\ [](pc[1] # "idle" => Len(seenTxs) <= Len(seenAtStart[1]) + 1)
  /\ []((pc[1] = "done" /\ Named \subseteq Range(seenAtStart[1])) =>
          result[1].kind = "false")

\* C20, amended.  Every named entry is eventually in seenTxs for good, one
\* added per invocation; an entry equal to the first txid and absent from
\* seenTxs is added as well once any entry has been added; an invocation
\* that begins with every entry in seenTxs or equal to the txid it is passed
\* returns false, and from some point on every invocation does.
C20_EventuallyAllAdded ==
  /\ <>[](Named \subseteq Range(seenTxs))
  /\ <>[](seenTxs = caller.seen0 \/ Range(caller.list) \subseteq Range(seenTxs))
  /\ [](pc[1] # "idle" => Len(seenTxs) <= Len(seenAtStart[1]) + 1)
  /\ []((pc[1] = "done" /\ NothingNewFor(1)) => result[1].kind = "false")
  /\ <>[](pc[1] = "done" => result[1].kind = "false")

\* The list is [1, 2] and 1 the first txid: 2 was added, then 1, and the
\* invocation after them returned false.
C20_Witness ==
  /\ caller.list = <<1, 2>>
  /\ caller.txid0 = 1
  /\ caller.seen0 = <<>>
  /\ seenTxs = <<2, 1>>
  /\ pc[1] = "done"
  /\ result[1].kind = "false"

====
